---- MODULE Spec2Model ----
(***************************************************************************)
(* Model of the Fear and Greed Index scraper: the `scrape` command of      *)
(* src/fng/cli.py and FearAndGreedIndex.process_data of                    *)
(* src/fng/fngindex.py.  One run of `scrape` is followed from its          *)
(* arguments to its exit; the tables are sequences of rows, as a polars    *)
(* DataFrame is an ordered list of rows under a list of columns.           *)
(*                                                                         *)
(* Calendar dates are day numbers since the epoch; the local time zone of  *)
(* datetime.fromtimestamp is taken to be UTC.  Scores are held in tenths   *)
(* where they are still JSON values (55.7 is 557), and as integers once    *)
(* converted.                                                              *)
(***************************************************************************)
EXTENDS Integers, Sequences, FiniteSets

(* ------------------------------ bounds -------------------------------- *)

\* Calendar days 0..MaxDay are the dates that occur in arguments and data.
MaxDay == 2
\* Most rows of the existing CSV file.
MaxExisting == 2
\* Most entries of the remote payload's data list.
MaxPayload == 2

Days == 0..MaxDay

(* ------------------------- program constants -------------------------- *)

\* timestamp / 1000: epoch milliseconds to seconds.
MsPerSec == 1000
\* .date() of a timestamp: seconds of one calendar day.
SecPerDay == 86400
\* typer.Exit(1)
ExitFailure == 1
\* the command returns normally
ExitSuccess == 0
\* a polars null cell (scores are never negative)
Null == -1

MsPerDay == MsPerSec * SecPerDay

(* ------------------------------ inputs -------------------------------- *)

\* A --start-date / end_date argument: a string that strptime("%Y-%m-%d")
\* parses to a day, or one it rejects.
DateArgs == [valid : {TRUE}, day : Days] \cup {[valid |-> FALSE, day |-> 0]}

\* --format arguments: the two supported ones (one in upper case, the
\* option is case-insensitive) and an unsupported one.
FormatArgs == {"parquet", "CSV", "xml"}

\* --input-csv: not given, a path with no file, a path with a file.
InputArgs == {"none", "missing", "present"}

\* Scores found in an existing CSV file.
ExistingValues == {10}

\* Rows of an existing CSV file.
CsvRows == [Date : Days, FG : ExistingValues]

\* The y of a payload entry: a JSON number or a JSON string, in tenths.
YChoices == { [kind |-> "num", tenths |-> 200],
              [kind |-> "num", tenths |-> 557],
              [kind |-> "str", tenths |-> 300],
              [kind |-> "str", tenths |-> 557] }

\* The x of a payload entry for day d: midnight on even days, the last
\* millisecond of the day on odd days.
TimestampOf(d) == d * MsPerDay + (IF d % 2 = 1 THEN MsPerDay - 1 ELSE 0)

PayloadEntries == { [x |-> TimestampOf(d), y |-> y] : d \in Days, y \in YChoices }

SeqsUpTo(S, n) == UNION { [1..k -> S] : k \in 0..n }

\* The remote source lists its observations in time order.
Chronological(p) == \A i \in 1..(Len(p) - 1) : p[i].x <= p[i + 1].x

Payloads == { p \in SeqsUpTo(PayloadEntries, MaxPayload) : Chronological(p) }

\* An existing file is an earlier snapshot of the series: its rows are in
\* date order (a date may occur more than once).
ByDate(f) == \A i \in 1..(Len(f) - 1) : f[i].Date <= f[i + 1].Date

CsvFiles == { f \in SeqsUpTo(CsvRows, MaxExisting) : ByDate(f) }

(* ------------------------------ tables -------------------------------- *)

\* A DataFrame: its columns and its rows.  A row carries the cell of
\* "Fear Greed" (FG) and of "Fear Greed_right" (FGr, Null where the frame
\* has no such column).  none marks Python's None in place of a frame.
Frame(cols, rows) == [none |-> FALSE, cols |-> cols, rows |-> rows]
NoneFrame == [none |-> TRUE, cols |-> <<>>, rows |-> <<>>]
Row(d, fg, fgr) == [Date |-> d, FG |-> fg, FGr |-> fgr]

ColsTwo == <<"Date", "Fear Greed">>
ColsThree == <<"Date", "Fear Greed", "Fear Greed_right">>

HasColumn(f, c) == \E i \in 1..Len(f.cols) : f.cols[i] = c

RECURSIVE Concat(_)
\* The concatenation of a sequence of sequences.
Concat(ss) == IF ss = <<>> THEN <<>> ELSE Head(ss) \o Concat(Tail(ss))

(* ----------------------- payload conversion --------------------------- *)

\* int(record["y"]) raises ValueError: int() of a string accepts only an
\* integer literal ("55.7" is refused), int() of a number never fails.
IntFails(y) == y.kind = "str" /\ y.tenths % 10 # 0

\* int(record["y"]) where it succeeds: a number loses its fraction
\* (truncation toward zero), an integer literal is read.
IntOf(y) == y.tenths \div 10

\* datetime.fromtimestamp(timestamp / 1000).date()
DateOfTimestamp(ts) == (ts \div MsPerSec) \div SecPerDay

\* One entry of api_records.
ConvertRecord(rec) == Row(DateOfTimestamp(rec.x), IntOf(rec.y), Null)

\* The loop over historical_data raises at the first entry int() refuses.
ConvertFails(data) == \E i \in 1..Len(data) : IntFails(data[i].y)

\* pl.DataFrame(api_records): a frame of the two columns, or, of an empty
\* list, a frame with no columns at all.
ApiFrame(data) ==
    IF data = <<>> THEN Frame(<<>>, <<>>)
    ELSE Frame(ColsTwo, [i \in 1..Len(data) |-> ConvertRecord(data[i])])

(* --------------------------- reconciliation --------------------------- *)

\* The rows of `rows` on date d, in their order.
RowsOn(rows, d) == SelectSeq(rows, LAMBDA r : r.Date = d)

HasDate(rows, d) == \E i \in 1..Len(rows) : rows[i].Date = d

\* fng_data.join(api_df, on="Date", how="outer_coalesce"): the key column
\* is coalesced; the right frame's "Fear Greed" clashes with the left
\* frame's and is kept beside it as "Fear Greed_right".  Left rows first,
\* each once per matching right row, then the right rows no left row
\* matches.
OuterCoalesceJoin(left, right) ==
    LET matched(l) ==
            LET m == RowsOn(right.rows, l.Date)
            IN  IF m = <<>> THEN << Row(l.Date, l.FG, Null) >>
                ELSE [j \in 1..Len(m) |-> Row(l.Date, l.FG, m[j].FG)]
        leftPart == Concat([i \in 1..Len(left.rows) |-> matched(left.rows[i])])
        rightOnly == SelectSeq(right.rows, LAMBDA r : ~HasDate(left.rows, r.Date))
        rightPart == [j \in 1..Len(rightOnly) |->
                         Row(rightOnly[j].Date, Null, rightOnly[j].FG)]
    IN  Frame(ColsThree, leftPart \o rightPart)

\* The join raises ColumnNotFoundError when the right frame has no "Date".
CombineFails(fng, api) ==
    \/ fng.none                                 \* None has no .height
    \/ Len(fng.rows) > 0 /\ ~HasColumn(api, "Date")

\* Lines 90-95: combined.
Combine(fng, api) ==
    IF Len(fng.rows) > 0 THEN OuterCoalesceJoin(fng, api) ELSE api

\* pl.date_range(start, end, interval="1d"): every day of [start, end].
CalendarDates(s, e) == [i \in 1..(e - s + 1) |-> s + i - 1]

\* date_range.join(combined, on="Date", how="left"): each date once per
\* matching row of combined, or once with null cells.
LeftJoin(dates, combined) ==
    LET matched(d) ==
            LET m == RowsOn(combined.rows, d)
            IN  IF m = <<>> THEN << Row(d, Null, Null) >> ELSE m
    IN  Frame(combined.cols, Concat([i \in 1..Len(dates) |-> matched(dates[i])]))

LeftJoinFails(combined) == ~HasColumn(combined, "Date")

\* FillZero as it would be with the filled column never assigned back.
FillZeroDropped(rows) == rows

\* pl.col("Fear Greed").fill_null(0)
FillZero(rows) ==
    [i \in 1..Len(rows) |->
        [rows[i] EXCEPT !.FG = IF @ = Null THEN 0 ELSE @]]

\* pl.col("Fear Greed").fill_null(strategy="backward"): a null cell takes
\* the next non-null cell below it, and stays null when there is none.
FillBackward(rows) ==
    [i \in 1..Len(rows) |->
        LET later == { j \in i..Len(rows) : rows[j].FG # Null }
        IN  [rows[i] EXCEPT !.FG =
                IF later = {} THEN Null
                ELSE rows[CHOOSE j \in later : \A k \in later : j <= k].FG]]

RECURSIVE InsertByDate(_, _)
\* r placed after the rows of sorted that are not later than it.
InsertByDate(sorted, r) ==
    IF sorted = <<>> THEN << r >>
    ELSE IF Head(sorted).Date <= r.Date
         THEN << Head(sorted) >> \o InsertByDate(Tail(sorted), r)
         ELSE << r >> \o sorted

RECURSIVE SortRows(_)
\* result.sort("Date")
SortRows(rows) ==
    IF rows = <<>> THEN <<>>
    ELSE InsertByDate(SortRows(SubSeq(rows, 1, Len(rows) - 1)), rows[Len(rows)])

\* Lines 90-118 of process_data, where they raise.
ReconcileFails(fng, api) ==
    CombineFails(fng, api) \/ LeftJoinFails(Combine(fng, api))

\* Lines 90-118 of process_data, where they return.
Reconcile(fng, api, s, e, bf) ==
    LET joined == LeftJoin(CalendarDates(s, e), Combine(fng, api))
        filled == IF bf THEN FillBackward(joined.rows) ELSE FillZero(joined.rows)
    IN  Frame(joined.cols, SortRows(filled))

(* ------------------------------ state --------------------------------- *)

VARIABLES
    start_date,       \* --start-date
    end_date,         \* end_date
    format_type,      \* --format
    input_csv,        \* --input-csv
    backfill,         \* --backfill
    pc,               \* where the run of scrape stands
    fng_data,         \* process_data: the existing table
    historical_data,  \* process_data: the payload's data list
    api_df,           \* process_data: the converted payload
    result,           \* process_data: the frame returned
    saved,            \* the frame written to the output file
    error,            \* the exception that ended the run, or "none"
    exit_code,        \* the exit status once pc = "exit"
    warnings,         \* "not found" warnings printed
    reads,            \* reads of the input file
    fetches,          \* requests sent to the remote source
    writes            \* writes of the output file

vars == << start_date, end_date, format_type, input_csv, backfill, pc,
           fng_data, historical_data, api_df, result, saved, error,
           exit_code, warnings, reads, fetches, writes >>

args == << start_date, end_date, format_type, input_csv, backfill >>
tables == << fng_data, historical_data, api_df, result, saved >>
effects == << warnings, reads, fetches, writes >>

\* str.lower() of a --format argument.
Lower(f) == IF f = "CSV" THEN "csv" ELSE f

\* The command is entered with its arguments; nothing has been done.
Init ==
    /\ start_date \in DateArgs
    /\ end_date \in DateArgs
    /\ format_type \in FormatArgs
    /\ input_csv \in InputArgs
    /\ backfill \in BOOLEAN
    /\ pc = "validate"
    /\ fng_data = NoneFrame
    /\ historical_data = <<>>
    /\ api_df = NoneFrame
    /\ result = NoneFrame
    /\ saved = NoneFrame
    /\ error = "none"
    /\ exit_code = ExitSuccess
    /\ warnings = 0
    /\ reads = 0
    /\ fetches = 0
    /\ writes = 0

\* raise typer.Exit(1), directly or from the handler of `except Exception`.
Abort(err) ==
    /\ pc' = "exit"
    /\ error' = err
    /\ exit_code' = ExitFailure

\* ValidationError as it would be without the comparison of the dates.
ValidationErrorNoRange ==
    IF Lower(format_type) \notin {"parquet", "csv"} THEN "format"
    ELSE IF ~start_date.valid \/ ~end_date.valid THEN "date"
    ELSE "none"

\* Which validation of scrape refuses the arguments, "none" if none does.
ValidationError ==
    IF Lower(format_type) \notin {"parquet", "csv"} THEN "format"
    ELSE IF ~start_date.valid \/ ~end_date.valid THEN "date"
    ELSE IF start_date.day > end_date.day THEN "range"
    ELSE "none"

\* scrape, lines 67-89: the format, then the dates, are validated.
Validate ==
    /\ pc = "validate"
    /\ IF ValidationError # "none"
       THEN Abort(ValidationError)
       ELSE pc' = "load" /\ UNCHANGED << error, exit_code >>
    /\ UNCHANGED << args, tables, effects >>

\* process_data, lines 67-74, with load_existing_data: the existing table
\* is an empty frame when no path is given, None (after a warning) when
\* the path names no file, and the file's rows otherwise.
LoadExisting ==
    /\ pc = "load"
    /\ \/ /\ input_csv = "none"
          /\ fng_data' = Frame(ColsTwo, <<>>)
          /\ UNCHANGED << warnings, reads >>
       \/ /\ input_csv = "missing"
          /\ fng_data' = NoneFrame
          /\ warnings' = warnings + 1
          /\ UNCHANGED reads
       \/ /\ input_csv = "present"
          /\ \E file \in CsvFiles :
                fng_data' = Frame(ColsTwo,
                                  [i \in 1..Len(file) |->
                                      Row(file[i].Date, file[i].FG, Null)])
          /\ reads' = reads + 1
          /\ UNCHANGED warnings
    /\ pc' = "fetch"
    /\ UNCHANGED << args, historical_data, api_df, result, saved, error,
                    exit_code, fetches, writes >>

\* fetch_historical_data returns the payload: one request, answered.
FetchOk ==
    /\ pc = "fetch"
    /\ fetches' = fetches + 1
    /\ \E data \in Payloads : historical_data' = data
    /\ pc' = "convert"
    /\ UNCHANGED << args, fng_data, api_df, result, saved, error, exit_code,
                    warnings, reads, writes >>

\* FetchFail as it would be with the failed request sent again.
FetchFailRetried ==
    /\ pc = "fetch"
    /\ fetches' = fetches + 1
    /\ error' = "transport"
    /\ UNCHANGED << args, tables, pc, exit_code, warnings, reads, writes >>

\* requests.get or raise_for_status raises: the exception leaves
\* process_data and is handled by scrape's `except Exception`.
FetchFail ==
    /\ pc = "fetch"
    /\ fetches' = fetches + 1
    /\ Abort("transport")
    /\ UNCHANGED << args, tables, warnings, reads, writes >>

\* process_data, lines 80-88: the payload becomes api_df, unless int()
\* refuses an entry.
Convert ==
    /\ pc = "convert"
    /\ IF ConvertFails(historical_data)
       THEN Abort("ValueError") /\ UNCHANGED api_df
       ELSE /\ api_df' = ApiFrame(historical_data)
            /\ pc' = "reconcile"
            /\ UNCHANGED << error, exit_code >>
    /\ UNCHANGED << args, fng_data, historical_data, result, saved, effects >>

\* process_data, lines 90-118: merge, calendar completion, fill, sort.
ReconcileStep ==
    /\ pc = "reconcile"
    /\ IF ReconcileFails(fng_data, api_df)
       THEN /\ Abort(IF fng_data.none THEN "AttributeError"
                     ELSE "ColumnNotFoundError")
            /\ UNCHANGED result
       ELSE /\ result' = Reconcile(fng_data, api_df, start_date.day,
                                   end_date.day, backfill)
            /\ pc' = "save"
            /\ UNCHANGED << error, exit_code >>
    /\ UNCHANGED << args, fng_data, historical_data, api_df, saved, effects >>

\* scrape, lines 113-123: save_data writes the frame (the format was
\* validated, so it does not raise), the summary is shown, the command
\* returns.
SaveAndFinish ==
    /\ pc = "save"
    /\ saved' = result
    /\ writes' = writes + 1
    /\ pc' = "exit"
    /\ exit_code' = ExitSuccess
    /\ UNCHANGED << args, fng_data, historical_data, api_df, result, error,
                    warnings, reads, fetches >>

Next ==
    \/ Validate
    \/ LoadExisting
    \/ FetchOk
    \/ FetchFail
    \/ Convert
    \/ ReconcileStep
    \/ SaveAndFinish

Spec == Init /\ [][Next]_vars

(* ------------------------- terms of the claims ------------------------ *)

\* process_data has returned a frame.
Reconciled == ~result.none

\* The fetch was answered and the conversion loop has run (or raised).
ConversionDone ==
    \/ pc \in {"reconcile", "save"}
    \/ pc = "exit" /\ fetches = 1 /\ error # "transport"

\* The requested range.
Range == start_date.day .. end_date.day

\* The "Fear Greed" cells of a sequence of rows on date d.
CellsOn(rows, d) == { rows[i].FG : i \in { j \in 1..Len(rows) : rows[j].Date = d } }

ExistingOn(d) == CellsOn(fng_data.rows, d)
FetchedOn(d) == CellsOn(api_df.rows, d)
ResultOn(d) == CellsOn(result.rows, d)

\* Neither source holds an observation for d.
Unobserved(d) == ExistingOn(d) = {} /\ FetchedOn(d) = {}

\* rows holds exactly one row per date of the range, in ascending order.
OneRowPerDate(rows) ==
    /\ Len(rows) = end_date.day - start_date.day + 1
    /\ \A i \in 1..Len(rows) : rows[i].Date = start_date.day + i - 1

\* y rounded to the nearest integer (y in tenths).
RoundNearest(tenths) == (tenths + 5) \div 10

\* The date and score columns of a frame's rows.
DateAndScore(rows) == [i \in 1..Len(rows) |-> << rows[i].Date, rows[i].FG >>]

\* What a run with no input file makes of the same payload.
EmptyExisting == Frame(ColsTwo, <<>>)
NoInputRaises ==
    \/ ConvertFails(historical_data)
    \/ ReconcileFails(EmptyExisting, ApiFrame(historical_data))
NoInputResult ==
    Reconcile(EmptyExisting, ApiFrame(historical_data), start_date.day,
              end_date.day, backfill)

(* ------------------------------ claims -------------------------------- *)

\* C1: on a date of the range that both the existing table and the
\* fetched payload hold, the reconciled "Fear Greed" value is the fetched
\* one, under either fill policy.
C1_MergePrecedence ==
    Reconciled =>
        \A d \in Range :
            (ExistingOn(d) # {} /\ FetchedOn(d) # {}) =>
                ResultOn(d) \subseteq FetchedOn(d)

\* C2: the result of process_data has exactly (end - start).days + 1 rows,
\* one for every calendar date of the range, none outside it and none
\* twice, whatever the table and the payload hold.
C2_OneRowPerDate ==
    Reconciled => OneRowPerDate(result.rows)

\* C3: a run given an input path with no file warns and then ends as the
\* run with no input file does on the same payload: same exit status,
\* same written output.
C3_MissingFileAsNoFile ==
    (input_csv = "missing" /\ pc = "exit" /\ fetches = 1 /\ error # "transport") =>
        /\ warnings = 1
        /\ IF NoInputRaises
           THEN exit_code = ExitFailure /\ writes = 0
           ELSE exit_code = ExitSuccess /\ writes = 1 /\ saved = NoInputResult

\* C4: a date of the range observed by exactly one of the two sources
\* keeps that source's value in the reconciled "Fear Greed" column; it is
\* never replaced by a fill value.
C4_MergeKeepsBothSides ==
    Reconciled =>
        \A d \in Range :
            /\ (ExistingOn(d) # {} /\ FetchedOn(d) = {}) =>
                   ResultOn(d) \subseteq ExistingOn(d)
            /\ (ExistingOn(d) = {} /\ FetchedOn(d) # {}) =>
                   ResultOn(d) \subseteq FetchedOn(d)

\* C5: under backward fill a date of the range observed by neither source
\* takes the value of the nearest later date of the range that either
\* source observes, and stays null when there is no such date.
C5_BackwardFill ==
    (Reconciled /\ backfill) =>
        \A d \in Range :
            Unobserved(d) =>
                LET later == { e \in Range : e > d /\ ~Unobserved(e) }
                    next == CHOOSE e \in later : \A k \in later : e <= k
                IN  IF later = {} THEN ResultOn(d) = {Null}
                    ELSE ResultOn(d) \subseteq (ExistingOn(next) \cup FetchedOn(next))

\* C6: an existing table that already holds exactly one row per date of
\* the range, reconciled with an empty payload, is returned and written
\* unchanged and the run raises nothing, under either fill policy.
C6_Idempotence ==
    ( /\ pc = "exit" /\ fetches = 1 /\ error # "transport"
      /\ historical_data = <<>>
      /\ ~fng_data.none
      /\ OneRowPerDate(fng_data.rows) ) =>
        /\ error = "none"
        /\ exit_code = ExitSuccess
        /\ DateAndScore(saved.rows) = DateAndScore(fng_data.rows)

\* C7: when the remote fetch fails, it has been attempted exactly once,
\* nothing is saved, and the run has ended with a non-zero exit status.
C7_TransportFailureIsFatal ==
    error = "transport" =>
        /\ fetches = 1
        /\ writes = 0
        /\ saved.none
        /\ pc = "exit"
        /\ exit_code # ExitSuccess

\* A run whose fetch failed has ended.
C7_Witness == error = "transport" /\ pc = "exit" /\ input_csv = "present"

\* The arguments scrape must refuse.
InvalidArguments ==
    \/ ~start_date.valid
    \/ ~end_date.valid
    \/ start_date.day > end_date.day
    \/ Lower(format_type) \notin {"parquet", "csv"}

\* C8: with an unparseable date, start > end or an unsupported format,
\* the run reads no input file, issues no fetch and writes no output, and
\* when it has ended its exit status is non-zero.
C8_ValidationPrecedesWork ==
    InvalidArguments =>
        /\ reads = 0
        /\ fetches = 0
        /\ writes = 0
        /\ pc \in {"validate", "exit"}
        /\ (pc = "exit" => exit_code # ExitSuccess)

\* A run refused for start > end alone has ended.
C8_Witness ==
    /\ pc = "exit"
    /\ start_date.valid /\ end_date.valid
    /\ start_date.day > end_date.day
    /\ Lower(format_type) \in {"parquet", "csv"}
    /\ input_csv = "present"

\* C9: under zero fill the result holds no null "Fear Greed" cell, and
\* every date of the range observed by neither source has value 0.
C9_ZeroFill ==
    (Reconciled /\ ~backfill) =>
        /\ \A i \in 1..Len(result.rows) : result.rows[i].FG # Null
        /\ \A d \in Range : Unobserved(d) => ResultOn(d) = {0}

\* A zero-filled result with an unobserved date between observed ones has
\* been written.
C9_Witness ==
    /\ Reconciled /\ ~backfill /\ pc = "exit" /\ saved = result
    /\ \E d \in Range :
          /\ Unobserved(d)
          /\ \E e \in Range : e > d /\ ~Unobserved(e)
          /\ \E e \in Range : e < d /\ ~Unobserved(e)

\* C10: every payload entry converts, to the date of floor(x / 1000)
\* seconds since the epoch and to y rounded to the nearest integer,
\* whether y is a number or a numeric string.
C10_PayloadConversion ==
    ConversionDone =>
        /\ error # "ValueError"
        /\ Len(api_df.rows) = Len(historical_data)
        /\ \A i \in 1..Len(historical_data) :
              /\ api_df.rows[i].Date =
                     (historical_data[i].x \div MsPerSec) \div SecPerDay
              /\ api_df.rows[i].FG = RoundNearest(historical_data[i].y.tenths)

====
